---------------------------- MODULE Spec2Model ----------------------------
(***************************************************************************)
(* testinator (src/src/main.rs): a test-matrix runner.  The module models  *)
(* the version comparator and the matrix generator as operators, and the   *)
(* execution engine (main, the toolchain tasks driven by                   *)
(* for_each_concurrent, the shutdown handler delete_paths_on_shutdown and  *)
(* the fuzz phase) as a state machine whose steps are the pieces of code   *)
(* between two suspension points.                                          *)
(***************************************************************************)
EXTENDS Integers, Sequences, FiniteSets, TLC

VARIABLES
    cfg,            \* Config: rust, features, par, fuzzing
    install,        \* Opts.install
    stable_version, \* what `cargo +stable --version` reports
    mainPc,         \* position of main
    installed,      \* the install_toolchain calls made so far and their outcome
    test_matrix,    \* HashMap<RustVersion, Vec<Vec<Feature>>> (a function)
    pc,             \* per matrix key: position of its test_rust_version future
    idx,            \* per matrix key: index of the pin / feature set in progress
    cmdlog,         \* per matrix key: external commands started in its workspace
    exists,         \* per matrix key: its temporary directory exists on disk
    dir,            \* per matrix key: the path of its temporary directory
    chan,           \* buffer of the mpsc channel of paths
    paths,          \* the Vec `paths` of delete_paths_on_shutdown
    handlerPc,      \* position of delete_paths_on_shutdown
    sigInstalled,   \* the process-wide SIGINT handler of tokio is installed
    sigSeen,        \* the live ctrl_c() future has been notified
    cancelled,      \* the Trigger has been cancelled (the Tripwire resolves)
    streamOpen,     \* for_each_concurrent still holds its stream
    delIdx,         \* next element of `paths` the shutdown loop removes
    fuzz_targets,   \* number of fuzz targets found by read_dir
    fuzzIdx,        \* number of fuzz commands started
    exitBy,         \* which code path ended the process ("none": it runs)
    status,         \* its exit status, once ended
    interrupted,    \* history: some interrupt signal has been delivered
    pathsAtCtrlC,   \* history: `paths` when the ctrl_c branch was taken
    shutdownLog,    \* history: the steps the ctrl_c branch has performed
    testFailed,     \* history: some test command exited non-zero
    failedTasks,    \* history: matrix keys whose copy or pin step failed
    geq_call        \* one call of versions_geq: arguments and outcome

vars == << cfg, install, stable_version, mainPc, installed, test_matrix, pc,
           idx, cmdlog, exists, dir, chan, paths, handlerPc, sigInstalled, sigSeen,
           cancelled, streamOpen, delIdx, fuzz_targets, fuzzIdx, exitBy,
           status, interrupted, pathsAtCtrlC, shutdownLog, testFailed,
           failedTasks, geq_call >>

----------------------------------------------------------------------------
(* Bounds of the model *)

MaxRust == 3        \* declared toolchains in the engine's configurations
MaxPar == 2         \* largest configured par
MaxTargets == 2     \* fuzz targets found in the fuzz_targets directory
MaxFeatures == 2    \* declared features in the matrix generator's inputs

(* Program constants *)

ChannelCapacity == 4    \* mpsc::channel(4)

----------------------------------------------------------------------------
(* Data: identifiers, versions, features, toolchains *)

Range(s) == { s[i] : i \in DOMAIN s }

\* A toolchain identifier is a string.  The model keeps what the code looks
\* at: whether it is "nightly" or "stable", and otherwise what
\* str::parse::<semver::Version> makes of it (a version, or an error).
Nightly == [str |-> "nightly", ver |-> <<0, 0, 0>>]
Stable == [str |-> "stable", ver |-> <<0, 0, 0>>]
Malformed == [str |-> "malformed", ver |-> <<0, 0, 0>>]
Ver(a, b, c) == [str |-> "semver", ver |-> <<a, b, c>>]

Versions == { <<1, 40, 0>>, <<1, 50, 0>>, <<1, 50, 1>>, <<1, 60, 0>>,
              <<0, 60, 0>>, <<2, 0, 0>> }

Idents == { Nightly, Stable, Malformed } \cup { Ver(v[1], v[2], v[3]) : v \in Versions }

\* Option<T> is a sequence of length 0 (None) or 1 (Some).
None == << >>
Some(x) == << x >>

Feature(n, m) == [name |-> n, min_rust |-> m]
RustVersion(n, p) == [name |-> n, requires_pinning |-> p]
VersionPin(d, v) == [dependency |-> d, version |-> v]

----------------------------------------------------------------------------
(* Version Comparator: versions_geq *)

\* str::parse::<Version>() succeeds
ParseOk(s) == s.str = "semver"

\* Ord of semver::Version on (major, minor, patch)
VersionGeq(a, b) ==
    \/ a[1] > b[1]
    \/ a[1] = b[1] /\ a[2] > b[2]
    \/ a[1] = b[1] /\ a[2] = b[2] /\ a[3] >= b[3]

Returned(b) == [panic |-> FALSE, val |-> b]
Panicked == [panic |-> TRUE, val |-> FALSE]

\* faulty variant: the test of v2 placed before the test of v1
versions_geq_v2_first(v1, v2, stable) ==
    IF v2.str = "nightly" THEN Returned(FALSE)
    ELSE IF v1.str = "nightly" THEN Returned(TRUE)
    ELSE IF (v1.str # "stable" /\ ~ParseOk(v1)) \/ (v2.str # "stable" /\ ~ParseOk(v2))
         THEN Panicked
    ELSE Returned(VersionGeq(IF v1.str = "stable" THEN stable ELSE v1.ver,
                             IF v2.str = "stable" THEN stable ELSE v2.ver))

\* faulty variant: "stable" is substituted on the left-hand side only
versions_geq_stable_v1_only(v1, v2, stable) ==
    IF v1.str = "nightly" THEN Returned(TRUE)
    ELSE IF v2.str = "nightly" THEN Returned(FALSE)
    ELSE IF v1.str # "stable" /\ ~ParseOk(v1) THEN Panicked
    ELSE IF ~ParseOk(v2) THEN Panicked
    ELSE Returned(VersionGeq(IF v1.str = "stable" THEN stable ELSE v1.ver, v2.ver))

versions_geq(v1, v2, stable) ==
    IF v1.str = "nightly" THEN Returned(TRUE)
    ELSE IF v2.str = "nightly" THEN Returned(FALSE)
    ELSE IF v1.str # "stable" /\ ~ParseOk(v1) THEN Panicked     \* v1.parse().unwrap()
    ELSE IF v2.str # "stable" /\ ~ParseOk(v2) THEN Panicked     \* v2.parse().unwrap()
    ELSE LET v1_semver == IF v1.str = "stable" THEN stable ELSE v1.ver
             v2_semver == IF v2.str = "stable" THEN stable ELSE v2.ver
         IN  Returned(VersionGeq(v1_semver, v2_semver))

----------------------------------------------------------------------------
(* Matrix Generator: gen_test_matrix *)

RECURSIVE Concat(_)
Concat(ss) == IF ss = << >> THEN << >> ELSE Head(ss) \o Concat(Tail(ss))

\* itertools combinations(k): the k-element subsequences of s, in
\* lexicographic order of their positions
RECURSIVE Combinations(_, _)
Combinations(s, k) ==
    IF k = 0 THEN << << >> >>
    ELSE IF Len(s) < k THEN << >>
    ELSE LET with == Combinations(Tail(s), k - 1)
             without == Combinations(Tail(s), k)
         IN  [i \in 1..Len(with) |-> << Head(s) >> \o with[i]] \o without

\* faulty variant: the empty combination is left out
PowersetNoEmpty(s) == Concat([k \in 1..Len(s) |-> Combinations(s, k)])

\* itertools powerset(): combinations of size 0, then 1, ... then Len(s)
Powerset(s) == Concat([j \in 1..(Len(s) + 1) |-> Combinations(s, j - 1)])

\* the closure handed to filter (lines 136-142)
FeatureEligible(f, rust, stable) ==
    IF f.min_rust # None
    THEN versions_geq(rust.name, f.min_rust[1], stable).val
    ELSE TRUE

\* the filter closure panics on this feature
FeaturePanics(f, rust, stable) ==
    f.min_rust # None /\ versions_geq(rust.name, f.min_rust[1], stable).panic

\* cfg.features.iter().filter(..): the eligible features, in declared order
RECURSIVE EligibleFeatures(_, _, _)
EligibleFeatures(features, rust, stable) ==
    IF features = << >> THEN << >>
    ELSE IF FeatureEligible(Head(features), rust, stable)
         THEN << Head(features) >> \o EligibleFeatures(Tail(features), rust, stable)
         ELSE EligibleFeatures(Tail(features), rust, stable)

\* feature_sets of one toolchain
FeatureSets(c, rust, stable) == Powerset(EligibleFeatures(c.features, rust, stable))

\* some versions_geq call of the generation panics
GenPanics(c, stable) ==
    \E i \in DOMAIN c.rust : \E j \in DOMAIN c.features :
        FeaturePanics(c.features[j], c.rust[i], stable)

\* the collected HashMap: one entry per distinct RustVersion
gen_test_matrix(c, stable) ==
    [rust \in Range(c.rust) |-> FeatureSets(c, rust, stable)]

----------------------------------------------------------------------------
(* Configurations of the engine *)

\* the i-th declared toolchain: an old release that needs two pins, then
\* "stable", then the old release once more without pins (another key of the
\* matrix, with the same name), then "nightly" and further releases
EngineRust(i) ==
    IF i = 1 THEN RustVersion(Ver(1, 40, 0), << VersionPin("dep", <<1, 0, 0>>),
                                                VersionPin("dep2", <<0, 3, 0>>) >>)
    ELSE IF i = 2 THEN RustVersion(Stable, << >>)
    ELSE IF i = 3 THEN RustVersion(Ver(1, 40, 0), << >>)
    ELSE IF i = 4 THEN RustVersion(Nightly, << >>)
    ELSE RustVersion(Ver(1, 40 + i, 0), << >>)

EngineFeatures == << Feature("B", Some(Ver(1, 50, 0))) >>

EngineConfigs ==
    { [rust |-> [i \in 1..n |-> EngineRust(i)], features |-> EngineFeatures,
       par |-> p, fuzzing |-> fz] :
        n \in 1..MaxRust, p \in 0..MaxPar, fz \in BOOLEAN }

NoCall == [v1 |-> Nightly, v2 |-> Nightly, stable |-> <<1, 60, 0>>, done |-> FALSE,
           out |-> Returned(FALSE)]

----------------------------------------------------------------------------
(* State of the engine *)

Keys == DOMAIN test_matrix
Exited == exitBy # "none"

\* futures held by for_each_concurrent: created and not yet completed
Active == { k \in Keys : pc[k] \notin {"waiting", "done"} }
Started == { k \in Keys : pc[k] # "waiting" }
Waiting == { k \in Keys : pc[k] = "waiting" }

\* the path of a temporary directory: the prefix handed to TempDir::new
\* ("{project}-{rust.name}") and the suffix TempDir::new appends; suffix 0
\* stands for "not created"
NoDir == [prefix |-> Malformed, suffix |-> 0]

\* directories created so far under the prefix
CreatedUnder(prefix) == { j \in Keys : dir[j].suffix > 0 /\ dir[j].prefix = prefix }

\* faulty variant: the directory is named by the prefix alone
TempDirFixed(prefix) == [prefix |-> prefix, suffix |-> 1]

\* TempDir::new(&format!("{}-{}", project_name, rust.name)): a directory that
\* did not exist, named by the prefix and a random suffix; the suffixes are
\* numbered in the order of creation
TempDirNew(prefix) == [prefix |-> prefix, suffix |-> Cardinality(CreatedUnder(prefix)) + 1]

LockCmd == [cmd |-> "generate-lockfile", arg |-> 0]
PinCmd(i) == [cmd |-> "update", arg |-> i]
TestCmd(i) == [cmd |-> "test", arg |-> i]

\* steps of the ctrl_c branch, as recorded in shutdownLog
CancelEvent == [ev |-> "cancel", path |-> << >>]
GraceEvent == [ev |-> "sleep", path |-> << >>]
RmEvent(p) == [ev |-> "rm", path |-> << p >>]
ExitEvent == [ev |-> "exit", path |-> << >>]

InitEngine(c, inst, stable) ==
    /\ cfg = c
    /\ install = inst
    /\ stable_version = stable
    /\ mainPc = IF inst THEN "install" ELSE "gen_matrix"
    /\ installed = << >>
    /\ test_matrix = << >>
    /\ pc = << >>
    /\ idx = << >>
    /\ cmdlog = << >>
    /\ exists = << >>
    /\ dir = << >>
    /\ chan = << >>
    /\ paths = << >>
    /\ handlerPc = "unspawned"
    /\ sigInstalled = FALSE
    /\ sigSeen = FALSE
    /\ cancelled = FALSE
    /\ streamOpen = TRUE
    /\ delIdx = 0
    /\ fuzz_targets = 0
    /\ fuzzIdx = 0
    /\ exitBy = "none"
    /\ status = 0
    /\ interrupted = FALSE
    /\ pathsAtCtrlC = << >>
    /\ shutdownLog = << >>
    /\ testFailed = FALSE
    /\ failedTasks = {}

Init ==
    /\ \E c \in EngineConfigs : \E inst \in BOOLEAN : InitEngine(c, inst, <<1, 60, 0>>)
    /\ geq_call = NoCall

engineVars == << cfg, install, stable_version, mainPc, installed, test_matrix,
                 pc, idx, cmdlog, exists, dir, chan, paths, handlerPc, sigInstalled,
                 sigSeen, cancelled, streamOpen, delIdx, fuzz_targets, fuzzIdx,
                 exitBy, status, interrupted, pathsAtCtrlC, shutdownLog, testFailed,
                 failedTasks >>

configVars == << cfg, install, stable_version >>
taskVars == << pc, idx, cmdlog, exists, dir >>
handlerVars == << paths, handlerPc, sigInstalled, sigSeen, cancelled, delIdx,
                  pathsAtCtrlC, shutdownLog >>
fuzzVars == << fuzz_targets, fuzzIdx >>
exitVars == << exitBy, status >>

\* std::process::exit / end of the process
ProcessExit(by, code) ==
    /\ exitBy' = by
    /\ status' = code

\* a panic inside the main task: block_on unwinds, the futures of
\* for_each_concurrent are dropped (each TempDir removes its directory) and
\* the process ends with the status of a panicking main
MainPanics ==
    /\ ProcessExit("panic", 101)
    /\ exists' = [k \in DOMAIN exists |-> FALSE]

----------------------------------------------------------------------------
(* main, before the matrix is scheduled *)

\* one call of install_toolchain, as recorded in `installed`
Installation(rust, success) == [rust |-> rust, ok |-> success]

\* faulty variant: a failed installation is only logged
InstallFailureLogged ==
    /\ mainPc' = IF Len(installed) + 1 = Len(cfg.rust) THEN "gen_matrix" ELSE "install"
    /\ UNCHANGED exitVars

\* rustup exited with a failure status: error!(..); exit(-1)
InstallFailure ==
    /\ ProcessExit("install", -1)
    /\ UNCHANGED mainPc

\* install_toolchain(rust).await, for the next entry of cfg.rust
InstallToolchain ==
    /\ ~Exited /\ mainPc = "install"
    /\ \E success \in BOOLEAN :
        /\ installed' = Append(installed,
                              Installation(cfg.rust[Len(installed) + 1], success))
        /\ IF success
           THEN /\ mainPc' = IF Len(installed) + 1 = Len(cfg.rust)
                             THEN "gen_matrix" ELSE "install"
                /\ UNCHANGED exitVars
           ELSE InstallFailure
    /\ UNCHANGED << configVars, test_matrix, taskVars, chan, handlerVars, streamOpen,
                    fuzzVars, interrupted, testFailed, failedTasks, geq_call >>

\* gen_test_matrix(&cfg).await
GenMatrix ==
    /\ ~Exited /\ mainPc = "gen_matrix"
    /\ IF GenPanics(cfg, stable_version)
       THEN /\ ProcessExit("panic", 101)
            /\ UNCHANGED << mainPc, test_matrix, taskVars >>
       ELSE /\ test_matrix' = gen_test_matrix(cfg, stable_version)
            /\ pc' = [k \in Range(cfg.rust) |-> "waiting"]
            /\ idx' = [k \in Range(cfg.rust) |-> 0]
            /\ cmdlog' = [k \in Range(cfg.rust) |-> << >>]
            /\ exists' = [k \in Range(cfg.rust) |-> FALSE]
            /\ dir' = [k \in Range(cfg.rust) |-> NoDir]
            /\ mainPc' = "spawn"
            /\ UNCHANGED exitVars
    /\ UNCHANGED << configVars, installed, chan, handlerVars, streamOpen, fuzzVars,
                    interrupted, testFailed, failedTasks, geq_call >>

\* mpsc::channel(4), Tripwire::new(), tokio::spawn(delete_paths_on_shutdown(..))
SpawnHandler ==
    /\ ~Exited /\ mainPc = "spawn"
    /\ mainPc' = "stream"
    /\ handlerPc' = "poll"
    /\ UNCHANGED << configVars, installed, test_matrix, taskVars, chan, paths,
                    sigInstalled, sigSeen, cancelled, delIdx, pathsAtCtrlC, shutdownLog,
                    streamOpen, fuzzVars, exitVars, interrupted, testFailed,
                    failedTasks, geq_call >>

----------------------------------------------------------------------------
(* The scheduler: stream::iter(test_matrix).take_until_if(tripwire)        *)
(*                  .for_each_concurrent(cfg.par, ..)                      *)

\* faulty variant: the limit test lets one future too many in
SlotFreeOffByOne == cfg.par = 0 \/ Cardinality(Active) <= cfg.par

\* for_each_concurrent polls its stream only while fewer than `limit` futures
\* are held; a limit of 0 is no limit
SlotFree == cfg.par = 0 \/ Cardinality(Active) < cfg.par

\* faulty variant: the stream is not cut by the tripwire
StreamCutNever == FALSE

\* take_until_if: the stream ends as soon as the tripwire has resolved
StreamCut == cancelled

\* faulty variant: completion does not wait for the futures in flight
ForEachCompleteEarly == ~streamOpen

\* for_each_concurrent completes when the stream has ended and no future is left
ForEachComplete == ~streamOpen /\ Active = {}

\* The future test_rust_version(..) of k is polled up to, or at,
\* delete_path_sender.send(path).await.  On its first poll -- the stream has
\* just yielded the entry, in the HashMap's arbitrary order, and the future
\* was created -- TempDir::new makes the directory first.  The send completes
\* at once when the buffer has room, and spawn_blocking then starts the copy;
\* with a full buffer (more than ChannelCapacity unreceived paths) the future
\* stays pending at the send and is polled again later.
PollSend(k) ==
    /\ ~Exited /\ mainPc = "stream"
    /\ \/ k \in Keys /\ pc[k] = "send"
       \/ streamOpen /\ SlotFree /\ ~StreamCut /\ k \in Waiting
    /\ exists' = [exists EXCEPT ![k] = TRUE]
    /\ dir' = IF pc[k] = "send" THEN dir ELSE [dir EXCEPT ![k] = TempDirNew(k.name)]
    /\ IF Len(chan) < ChannelCapacity
       THEN /\ chan' = Append(chan, k)
            /\ pc' = [pc EXCEPT ![k] = "copy"]
       ELSE /\ pc' = [pc EXCEPT ![k] = "send"]
            /\ UNCHANGED chan
    /\ UNCHANGED << configVars, mainPc, installed, test_matrix, idx, cmdlog,
                    handlerVars, streamOpen, fuzzVars, exitVars, interrupted,
                    testFailed, failedTasks, geq_call >>

\* faulty variant: the iterator ends although entries are left
StreamExhaustedEarly == TRUE

\* stream::iter(test_matrix) has yielded every entry of the map
StreamExhausted == Waiting = {}

\* the stream returns None: the tripwire has resolved or the map is exhausted
StreamEnd ==
    /\ ~Exited /\ mainPc = "stream" /\ streamOpen /\ SlotFree
    /\ StreamCut \/ StreamExhausted
    /\ streamOpen' = FALSE
    /\ UNCHANGED << configVars, mainPc, installed, test_matrix, taskVars, chan,
                    handlerVars, fuzzVars, exitVars, interrupted, testFailed,
                    failedTasks, geq_call >>

\* for_each_concurrent(..).await returns; main starts sleep(1500 ms)
ForEachDone ==
    /\ ~Exited /\ mainPc = "stream" /\ ForEachComplete
    /\ mainPc' = "sleep"
    /\ UNCHANGED << configVars, installed, test_matrix, taskVars, chan, handlerVars,
                    streamOpen, fuzzVars, exitVars, interrupted, testFailed,
                    failedTasks, geq_call >>

----------------------------------------------------------------------------
(* One toolchain task: test_rust_version, pin_dependencies, run_test *)

TaskReturns == [pc |-> "done", idx |-> 0, cmds |-> << >>]

\* for feature_set in feature_sets { run_test(..).await }
BeginTests(k) ==
    IF test_matrix[k] = << >> THEN TaskReturns
    ELSE [pc |-> "test", idx |-> 1, cmds |-> << TestCmd(1) >>]

\* if !rust.requires_pinning.is_empty() { pin_dependencies(..).await }
AfterCopy(k) ==
    IF k.requires_pinning # << >>
    THEN [pc |-> "lockfile", idx |-> 0, cmds |-> << LockCmd >>]
    ELSE BeginTests(k)

\* for pin in rust.requires_pinning.iter() { cargo update -p .. --precise .. }
AfterLockfile(k) ==
    IF k.requires_pinning # << >>
    THEN [pc |-> "pin", idx |-> 1, cmds |-> << PinCmd(1) >>]
    ELSE BeginTests(k)

\* faulty variant: only the first pin is applied
AfterPinFirstOnly(k) == BeginTests(k)

AfterPin(k) ==
    IF idx[k] < Len(k.requires_pinning)
    THEN [pc |-> "pin", idx |-> idx[k] + 1, cmds |-> << PinCmd(idx[k] + 1) >>]
    ELSE BeginTests(k)

\* faulty variant: a failed test ends the toolchain's loop
AfterTestStopOnFailure(k, success) ==
    IF success /\ idx[k] < Len(test_matrix[k])
    THEN [pc |-> "test", idx |-> idx[k] + 1, cmds |-> << TestCmd(idx[k] + 1) >>]
    ELSE TaskReturns

\* run_test returns whatever the exit status; the loop goes on
AfterTest(k, success) ==
    IF idx[k] < Len(test_matrix[k])
    THEN [pc |-> "test", idx |-> idx[k] + 1, cmds |-> << TestCmd(idx[k] + 1) >>]
    ELSE TaskReturns

\* faulty variant: the directory outlives the task
TaskStepKeepsDir(k, n) ==
    /\ pc' = [pc EXCEPT ![k] = n.pc]
    /\ idx' = [idx EXCEPT ![k] = n.idx]
    /\ cmdlog' = [cmdlog EXCEPT ![k] = @ \o n.cmds]
    /\ UNCHANGED << exists, dir, exitVars, failedTasks >>

\* the future of k moves on; when it completes its TempDir is dropped, which
\* removes the directory
TaskStep(k, n) ==
    /\ pc' = [pc EXCEPT ![k] = n.pc]
    /\ idx' = [idx EXCEPT ![k] = n.idx]
    /\ cmdlog' = [cmdlog EXCEPT ![k] = @ \o n.cmds]
    /\ exists' = IF n.pc = "done" THEN [exists EXCEPT ![k] = FALSE] ELSE exists
    /\ UNCHANGED << dir, exitVars, failedTasks >>

\* faulty variant: the failed step is passed over and the task goes on
TaskIgnoresFailure(k) ==
    /\ LET n == IF pc[k] = "copy" THEN AfterCopy(k)
                ELSE IF pc[k] = "lockfile" THEN AfterLockfile(k)
                ELSE AfterPin(k)
       IN  /\ pc' = [pc EXCEPT ![k] = n.pc]
           /\ idx' = [idx EXCEPT ![k] = n.idx]
           /\ cmdlog' = [cmdlog EXCEPT ![k] = @ \o n.cmds]
           /\ exists' = IF n.pc = "done" THEN [exists EXCEPT ![k] = FALSE] ELSE exists
    /\ failedTasks' = failedTasks \cup {k}
    /\ UNCHANGED << dir, exitVars >>

\* an unwrap() or assert! of the task fails
TaskPanics(k) ==
    /\ MainPanics
    /\ failedTasks' = failedTasks \cup {k}
    /\ UNCHANGED << pc, idx, cmdlog, dir >>

\* the blocking copy (and the removal of Cargo.lock) ends
CopyDone(k) ==
    /\ ~Exited /\ k \in Keys /\ pc[k] = "copy"
    /\ \E success \in BOOLEAN :
        IF success THEN TaskStep(k, AfterCopy(k)) ELSE TaskPanics(k)
    /\ UNCHANGED << configVars, mainPc, installed, test_matrix, chan, handlerVars,
                    streamOpen, fuzzVars, interrupted, testFailed, geq_call >>

\* cargo generate-lockfile exits; assert!(status.success())
LockfileDone(k) ==
    /\ ~Exited /\ k \in Keys /\ pc[k] = "lockfile"
    /\ \E success \in BOOLEAN :
        IF success THEN TaskStep(k, AfterLockfile(k)) ELSE TaskPanics(k)
    /\ UNCHANGED << configVars, mainPc, installed, test_matrix, chan, handlerVars,
                    streamOpen, fuzzVars, interrupted, testFailed, geq_call >>

\* cargo update -p .. --precise .. exits; assert!(status.success())
PinDone(k) ==
    /\ ~Exited /\ k \in Keys /\ pc[k] = "pin"
    /\ \E success \in BOOLEAN :
        IF success THEN TaskStep(k, AfterPin(k)) ELSE TaskPanics(k)
    /\ UNCHANGED << configVars, mainPc, installed, test_matrix, chan, handlerVars,
                    streamOpen, fuzzVars, interrupted, testFailed, geq_call >>

\* cargo test exits; success or failure is only logged
TestDone(k) ==
    /\ ~Exited /\ k \in Keys /\ pc[k] = "test"
    /\ \E success \in BOOLEAN :
        /\ TaskStep(k, AfterTest(k, success))
        /\ testFailed' = (testFailed \/ ~success)
    /\ UNCHANGED << configVars, mainPc, installed, test_matrix, chan, handlerVars,
                    streamOpen, fuzzVars, interrupted, geq_call >>

----------------------------------------------------------------------------
(* The shutdown handler: delete_paths_on_shutdown *)

\* select! finds neither branch ready.  Polling ctrl_c() for the first time
\* installs the process-wide SIGINT handler; each ctrl_c() future listens
\* only for signals delivered after it was first polled.
HandlerPark ==
    /\ ~Exited /\ handlerPc = "poll" /\ chan = << >>
    /\ handlerPc' = "parked"
    /\ sigInstalled' = TRUE
    /\ sigSeen' = FALSE
    /\ UNCHANGED << configVars, mainPc, installed, test_matrix, taskVars, chan, paths,
                    cancelled, delIdx, pathsAtCtrlC, shutdownLog, streamOpen, fuzzVars,
                    exitVars, interrupted, testFailed, failedTasks, geq_call >>

\* Some(path) = path_receiver.recv() => paths.push(path).  The branches are
\* polled in random order: the recv branch can win although the signal has
\* been delivered, and the ctrl_c() future is dropped with the select!.
HandlerRecv ==
    /\ ~Exited /\ handlerPc \in {"poll", "parked"} /\ chan # << >>
    /\ paths' = Append(paths, Head(chan))
    /\ chan' = Tail(chan)
    /\ handlerPc' = "poll"
    /\ sigSeen' = FALSE
    /\ \E polled \in BOOLEAN :
        sigInstalled' = (sigInstalled \/ (handlerPc = "poll" /\ polled))
    /\ UNCHANGED << configVars, mainPc, installed, test_matrix, taskVars, cancelled,
                    delIdx, pathsAtCtrlC, shutdownLog, streamOpen, fuzzVars, exitVars,
                    interrupted, testFailed, failedTasks, geq_call >>

\* _ = ctrl_c() => { tw_trigger.cancel(); sleep(500 ms).await; ..
HandlerCtrlC ==
    /\ ~Exited /\ handlerPc = "parked" /\ sigSeen
    /\ cancelled' = TRUE
    /\ handlerPc' = "grace"
    /\ pathsAtCtrlC' = paths
    /\ shutdownLog' = Append(shutdownLog, CancelEvent)
    /\ UNCHANGED << configVars, mainPc, installed, test_matrix, taskVars, chan, paths,
                    sigInstalled, sigSeen, delIdx, streamOpen, fuzzVars,
                    exitVars, interrupted, testFailed, failedTasks, geq_call >>

\* the sleep of 500 ms ends; `for path in paths` begins
GraceElapsed ==
    /\ ~Exited /\ handlerPc = "grace"
    /\ handlerPc' = "deleting"
    /\ delIdx' = 1
    /\ shutdownLog' = Append(shutdownLog, GraceEvent)
    /\ UNCHANGED << configVars, mainPc, installed, test_matrix, taskVars, chan, paths,
                    sigInstalled, sigSeen, cancelled, pathsAtCtrlC, streamOpen,
                    fuzzVars, exitVars, interrupted, testFailed, failedTasks, geq_call >>

\* faulty variant: the loop stops one path short
ShutdownLoopDoneEarly == delIdx >= Len(paths)

\* the loop over `paths` is exhausted
ShutdownLoopDone == delIdx > Len(paths)

\* rm -rf path, awaited
DeletePath ==
    /\ ~Exited /\ handlerPc = "deleting" /\ ~ShutdownLoopDone
    /\ exists' = [exists EXCEPT ![paths[delIdx]] = FALSE]
    /\ shutdownLog' = Append(shutdownLog, RmEvent(paths[delIdx]))
    /\ delIdx' = delIdx + 1
    /\ UNCHANGED << configVars, mainPc, installed, test_matrix, pc, idx, cmdlog, dir,
                    chan, paths, handlerPc, sigInstalled, sigSeen, cancelled, pathsAtCtrlC,
                    streamOpen, fuzzVars, exitVars, interrupted, testFailed,
                    failedTasks, geq_call >>

\* info!("Shutting down ..."); exit(0)
HandlerExit ==
    /\ ~Exited /\ handlerPc = "deleting" /\ ShutdownLoopDone
    /\ ProcessExit("shutdown", 0)
    /\ handlerPc' = "exited"
    /\ shutdownLog' = Append(shutdownLog, ExitEvent)
    /\ UNCHANGED << configVars, mainPc, installed, test_matrix, taskVars, chan, paths,
                    sigInstalled, sigSeen, cancelled, delIdx, pathsAtCtrlC,
                    streamOpen, fuzzVars, interrupted, testFailed, failedTasks,
                    geq_call >>

\* The environment delivers SIGINT.  Before tokio's handler is installed the
\* default disposition ends the process; afterwards the signal reaches the
\* ctrl_c() future that is being awaited, if there is one.
Interrupt ==
    /\ ~Exited
    /\ interrupted' = TRUE
    /\ IF ~sigInstalled
       THEN /\ ProcessExit("sigint", 130)
            /\ UNCHANGED sigSeen
       ELSE /\ sigSeen' = (sigSeen \/ handlerPc = "parked")
            /\ UNCHANGED exitVars
    /\ UNCHANGED << configVars, mainPc, installed, test_matrix, taskVars, chan, paths,
                    handlerPc, sigInstalled, cancelled, delIdx, pathsAtCtrlC, shutdownLog,
                    streamOpen, fuzzVars, testFailed, failedTasks, geq_call >>

----------------------------------------------------------------------------
(* main, after the matrix: the sleep, the fuzz phase, the return *)

\* sleep(1500 ms) ends; if let Some(ref fuzz) = cfg.fuzzing
SleepDone ==
    /\ ~Exited /\ mainPc = "sleep"
    /\ mainPc' = IF cfg.fuzzing THEN "read_dir" ELSE "return"
    /\ UNCHANGED << configVars, installed, test_matrix, taskVars, chan, handlerVars,
                    streamOpen, fuzzVars, exitVars, interrupted, testFailed,
                    failedTasks, geq_call >>

\* fuzz_test: read_dir lists the targets; the first command is spawned
ReadFuzzTargets ==
    /\ ~Exited /\ mainPc = "read_dir"
    /\ \E n \in 0..MaxTargets :
        /\ fuzz_targets' = n
        /\ fuzzIdx' = IF n > 0 THEN 1 ELSE 0
        /\ mainPc' = IF n > 0 THEN "fuzz" ELSE "return"
    /\ UNCHANGED << configVars, installed, test_matrix, taskVars, chan, handlerVars,
                    streamOpen, exitVars, interrupted, testFailed, failedTasks,
                    geq_call >>

\* cargo hfuzz run exits; success or failure is only logged
FuzzDone ==
    /\ ~Exited /\ mainPc = "fuzz"
    /\ IF fuzzIdx < fuzz_targets
       THEN /\ fuzzIdx' = fuzzIdx + 1
            /\ UNCHANGED mainPc
       ELSE /\ mainPc' = "return"
            /\ UNCHANGED fuzzIdx
    /\ UNCHANGED << configVars, installed, test_matrix, taskVars, chan, handlerVars,
                    streamOpen, fuzz_targets, exitVars, interrupted, testFailed,
                    failedTasks, geq_call >>

\* main returns: the runtime is dropped and the process ends with status 0
MainReturn ==
    /\ ~Exited /\ mainPc = "return"
    /\ ProcessExit("main", 0)
    /\ mainPc' = "done"
    /\ UNCHANGED << configVars, installed, test_matrix, taskVars, chan, handlerVars,
                    streamOpen, fuzzVars, interrupted, testFailed, failedTasks,
                    geq_call >>

----------------------------------------------------------------------------

AllKeys == { EngineRust(i) : i \in 1..MaxRust }

Next ==
    \/ InstallToolchain
    \/ GenMatrix
    \/ SpawnHandler
    \/ \E k \in AllKeys : PollSend(k)
    \/ StreamEnd
    \/ ForEachDone
    \/ \E k \in AllKeys : CopyDone(k)
    \/ \E k \in AllKeys : LockfileDone(k)
    \/ \E k \in AllKeys : PinDone(k)
    \/ \E k \in AllKeys : TestDone(k)
    \/ HandlerPark
    \/ HandlerRecv
    \/ HandlerCtrlC
    \/ GraceElapsed
    \/ DeletePath
    \/ HandlerExit
    \/ Interrupt
    \/ SleepDone
    \/ ReadFuzzTargets
    \/ FuzzDone
    \/ MainReturn

\* the execution engine, from the start of main to the end of the process
Spec == Init /\ [][Next]_vars

----------------------------------------------------------------------------
(* The run without interrupt: more toolchains than the channel holds       *)
(* paths, every step of main, of the tasks and of the handler taken        *)
(* eventually (the runtime polls every woken task, and every external      *)
(* command and copy comes to an end)                                        *)

LiveRust == 5       \* declared toolchains in the configurations of SpecLive

\* LiveRust toolchains run one at a time, or up to MaxRust toolchains with
\* every par from 1 to MaxPar
LiveConfigs ==
    { [rust |-> [i \in 1..np[1] |-> EngineRust(i)], features |-> EngineFeatures,
       par |-> np[2], fuzzing |-> fz] :
        np \in ({LiveRust} \X {1}) \cup ((1..MaxRust) \X (1..MaxPar)),
        fz \in BOOLEAN }

LiveKeys == { EngineRust(i) : i \in 1..LiveRust }

InitLive ==
    /\ \E c \in LiveConfigs : InitEngine(c, FALSE, <<1, 60, 0>>)
    /\ geq_call = NoCall

NextLive ==
    \/ GenMatrix
    \/ SpawnHandler
    \/ \E k \in LiveKeys : PollSend(k)
    \/ StreamEnd
    \/ ForEachDone
    \/ \E k \in LiveKeys : CopyDone(k)
    \/ \E k \in LiveKeys : LockfileDone(k)
    \/ \E k \in LiveKeys : PinDone(k)
    \/ \E k \in LiveKeys : TestDone(k)
    \/ HandlerPark
    \/ HandlerRecv
    \/ SleepDone
    \/ ReadFuzzTargets
    \/ FuzzDone
    \/ MainReturn

FairLive ==
    /\ WF_vars(GenMatrix) /\ WF_vars(SpawnHandler)
    /\ WF_vars(StreamEnd) /\ WF_vars(ForEachDone)
    /\ \A k \in LiveKeys :
        /\ WF_vars(PollSend(k)) /\ WF_vars(CopyDone(k))
        /\ WF_vars(LockfileDone(k)) /\ WF_vars(PinDone(k)) /\ WF_vars(TestDone(k))
    /\ WF_vars(HandlerPark) /\ WF_vars(HandlerRecv)
    /\ WF_vars(SleepDone) /\ WF_vars(ReadFuzzTargets) /\ WF_vars(FuzzDone)
    /\ WF_vars(MainReturn)

SpecLive == InitLive /\ [][NextLive]_vars /\ FairLive

----------------------------------------------------------------------------
(* The version comparator on its own: one call of versions_geq on          *)
(* arguments drawn from Idents                                             *)

InitGeq ==
    /\ InitEngine([rust |-> << EngineRust(1) >>, features |-> EngineFeatures,
                   par |-> 1, fuzzing |-> FALSE], FALSE, <<1, 60, 0>>)
    /\ \E a \in Idents : \E b \in Idents : \E s \in Versions :
        geq_call = [v1 |-> a, v2 |-> b, stable |-> s, done |-> FALSE,
                    out |-> Returned(FALSE)]

CallVersionsGeq ==
    /\ ~geq_call.done
    /\ geq_call' = [geq_call EXCEPT !.done = TRUE,
                        !.out = versions_geq(geq_call.v1, geq_call.v2, geq_call.stable)]
    /\ UNCHANGED engineVars

NextGeq == CallVersionsGeq

SpecGeq == InitGeq /\ [][NextGeq]_vars

----------------------------------------------------------------------------
(* The matrix generator on its own: gen_test_matrix on configurations      *)
(* drawn from bounded sets of toolchains and features                      *)

MatrixIdents == { Nightly, Stable, Malformed, Ver(1, 40, 0), Ver(1, 50, 0), Ver(1, 60, 0) }
MatrixMins == { None, Some(Nightly), Some(Stable), Some(Malformed), Some(Ver(1, 50, 0)) }
MatrixFeatures == { Feature(n, m) : n \in {"A", "B"}, m \in MatrixMins }
MatrixStables == { <<1, 50, 0>>, <<1, 60, 0>> }

SeqsUpTo(S, n) == UNION { [1..m -> S] : m \in 0..n }

MatrixConfigs ==
    { [rust |-> r, features |-> f, par |-> 1, fuzzing |-> FALSE] :
        r \in { [i \in DOMAIN ids |-> RustVersion(ids[i], << >>)] :
                    ids \in SeqsUpTo(MatrixIdents, 2) \ { << >> } },
        f \in SeqsUpTo(MatrixFeatures, MaxFeatures) }

InitMatrix ==
    /\ \E c \in MatrixConfigs : \E stable \in MatrixStables : InitEngine(c, FALSE, stable)
    /\ geq_call = NoCall

NextMatrix == GenMatrix

SpecMatrix == InitMatrix /\ [][NextMatrix]_vars

----------------------------------------------------------------------------
(* Properties *)

TestsStarted(k) == { i \in DOMAIN cmdlog[k] : cmdlog[k][i].cmd = "test" }
TimesRun(k, j) == Cardinality({ i \in DOMAIN cmdlog[k] : cmdlog[k][i] = TestCmd(j) })
IsPrefix(s, t) == Len(s) <= Len(t) /\ \A i \in DOMAIN s : s[i] = t[i]

\* C1: with par >= 1, the number of toolchain tasks that have started and
\* have not finished never exceeds par.
C1_AtMostParActive == cfg.par >= 1 => Cardinality(Active) <= cfg.par

\* 3 toolchains, par = 2: two tasks hold a workspace, the third waits
C1_Witness ==
    /\ cfg.par = 2 /\ Cardinality(Keys) = 3
    /\ Cardinality({ k \in Keys : pc[k] \in {"copy", "test"} /\ exists[k] }) = 2
    /\ Cardinality(Waiting) = 1

\* C2: a workspace whose copy has begun, or against which a command has
\* been started, has its path in the list `paths` of the shutdown handler.
C2_RegisteredBeforeUse ==
    \A k \in Keys :
        (pc[k] \in {"copy", "lockfile", "pin", "test"} \/ cmdlog[k] # << >>)
            => k \in Range(paths)

\* C3: when the process exits through the shutdown path, no workspace
\* directory created by a toolchain task exists any more.
C3_NoWorkspaceLeftAtShutdown ==
    exitBy = "shutdown" => \A k \in Keys : ~exists[k]

\* the steps of the shutdown path over the registry p, in order
ShutdownSteps(p) ==
    << CancelEvent, GraceEvent >> \o [i \in 1..Len(p) |-> RmEvent(p[i])] \o << ExitEvent >>

\* C4: once the handler has observed an interrupt its steps are, in this
\* order: cancel, the grace sleep, one rm per path that was in the registry
\* when the interrupt was observed, then exit with status 0; nothing is
\* removed before the cancellation and the exit follows the last removal.
C4_ShutdownOrder ==
    /\ handlerPc \in {"unspawned", "poll", "parked"} => shutdownLog = << >> /\ ~cancelled
    /\ handlerPc \in {"grace", "deleting", "exited"} =>
        /\ shutdownLog # << >>
        /\ IsPrefix(shutdownLog, ShutdownSteps(pathsAtCtrlC))
        /\ cancelled
    /\ exitBy = "shutdown" =>
        /\ shutdownLog = ShutdownSteps(pathsAtCtrlC)
        /\ status = 0

\* the interrupt found 2 registered workspaces and no test had finished
C4_Witness ==
    /\ exitBy = "shutdown"
    /\ Len(pathsAtCtrlC) = 2
    /\ \A k \in Keys : pc[k] # "done" /\ Cardinality(TestsStarted(k)) <= 1
    /\ \A k \in Range(pathsAtCtrlC) : ~exists[k]

\* C5: once cancellation has been signalled the set of started toolchain
\* tasks never grows.
C5_NoStartAfterCancel == [][cancelled => Started' = Started]_vars

\* after the cancellation a task has finished and freed a slot while an
\* entry of the matrix still waits
C5_Witness ==
    /\ cancelled /\ ~Exited /\ mainPc = "stream"
    /\ cfg.par >= 1 /\ Cardinality(Active) < cfg.par
    /\ Waiting # {}
    /\ \E k \in Keys : pc[k] = "done"

\* C6: no (toolchain, feature set) pair is ever run twice, and a run without
\* interrupt that reaches the end of main has run every pair exactly once
\* and ends with status 0, whichever tests failed.
C6_EveryPairOnce ==
    /\ \A k \in Keys : \A j \in 1..Len(test_matrix[k]) : TimesRun(k, j) <= 1
    /\ (exitBy = "main" /\ ~interrupted) =>
        /\ status = 0
        /\ \A k \in Keys : \A j \in 1..Len(test_matrix[k]) : TimesRun(k, j) = 1
        /\ \A k \in Keys : Cardinality(TestsStarted(k)) = Len(test_matrix[k])

\* a run of 2 toolchains in which some test failed ends normally
C6_Witness ==
    /\ exitBy = "main" /\ ~interrupted /\ testFailed
    /\ Cardinality(Keys) = 2

\* C7: when a copy, lock-file or pin step of one toolchain fails, the
\* process still runs every feature set of every other toolchain and then
\* the fuzz phase.
C7_SiblingsUnaffected ==
    (Exited /\ failedTasks # {} /\ ~interrupted) =>
        /\ \A k \in Keys \ failedTasks :
            pc[k] = "done" /\ Cardinality(TestsStarted(k)) = Len(test_matrix[k])
        /\ cfg.fuzzing => mainPc \in {"fuzz", "return", "done"}

\* C8: while the fuzz phase runs, and after it, no toolchain task is active.
C8_FuzzAfterMatrix ==
    (mainPc \in {"read_dir", "fuzz"} \/ fuzzIdx > 0) => Active = {}

\* a fuzz command runs after both toolchain tasks have finished
C8_Witness ==
    /\ mainPc = "fuzz" /\ fuzzIdx = 1 /\ ~Exited
    /\ Cardinality(Keys) = 2
    /\ \A k \in Keys : pc[k] = "done"

\* the elements of s at the positions P, in increasing order of position
RECURSIVE SubSeqAt(_, _, _)
SubSeqAt(s, P, from) ==
    IF from > Len(s) THEN << >>
    ELSE (IF from \in P THEN << s[from] >> ELSE << >>) \o SubSeqAt(s, P, from + 1)

\* positions of the declared features that are eligible for the toolchain
EligiblePositions(rust) ==
    { j \in DOMAIN cfg.features :
        \/ cfg.features[j].min_rust = None
        \/ versions_geq(rust.name, cfg.features[j].min_rust[1], stable_version)
                = Returned(TRUE) }

Occurrences(s, x) == Cardinality({ i \in DOMAIN s : s[i] = x })

\* C9: the combinations generated for a toolchain are the power set of its
\* eligible features: 2^k combinations for k eligible declarations, every
\* selection of eligible declarations exactly once, and no combination
\* holds an ineligible feature.
C9_PowerSetOfEligible ==
    mainPc = "spawn" =>
        \A rust \in Range(cfg.rust) :
            LET P == EligiblePositions(rust)
                out == test_matrix[rust]
                sel(S) == SubSeqAt(cfg.features, S, 1)
            IN  /\ Len(out) = 2 ^ Cardinality(P)
                /\ \A S \in SUBSET P :
                    Occurrences(out, sel(S))
                        = Cardinality({ T \in SUBSET P : sel(T) = sel(S) })
                /\ \A i \in DOMAIN out : \A j \in DOMAIN out[i] :
                    \E e \in P : cfg.features[e] = out[i][j]

\* features A (no minimum) and B (minimum 1.50.0), stable = 1.60.0:
\* 1.40.0 gets {[], [A]} and stable gets {[], [A], [B], [A, B]}
C9_Witness ==
    LET A == Feature("A", None)
        B == Feature("B", Some(Ver(1, 50, 0)))
        old == RustVersion(Ver(1, 40, 0), << >>)
        st == RustVersion(Stable, << >>)
    IN  /\ mainPc = "spawn"
        /\ cfg.features = << A, B >>
        /\ cfg.rust = << old, st >>
        /\ stable_version = <<1, 60, 0>>
        /\ test_matrix[old] = << << >>, << A >> >>
        /\ test_matrix[st] = << << >>, << A >>, << B >>, << A, B >> >>

\* C10: versions_geq("nightly", x, stable) is true for every x, and
\* versions_geq(x, "nightly", stable) is false for every x but "nightly".
C10_NightlyIsHighest ==
    geq_call.done =>
        /\ geq_call.v1 = Nightly => geq_call.out = Returned(TRUE)
        /\ (geq_call.v2 = Nightly /\ geq_call.v1 # Nightly) => geq_call.out = Returned(FALSE)

\* nightly against nightly
C10_Witness ==
    /\ geq_call.done
    /\ geq_call.v1 = Nightly /\ geq_call.v2 = Nightly
    /\ geq_call.out = Returned(TRUE)

----------------------------------------------------------------------------
(* Properties of the comparator beyond "nightly" *)

\* precedence of semantic versions: major, minor and patch are compared
\* numerically, left to right; a precedes b at the first component that
\* differs
SemverPrecedes(a, b) ==
    \E i \in 1..3 : a[i] < b[i] /\ \A j \in 1..(i - 1) : a[j] = b[j]

\* the identifier with "stable" replaced by the resolved stable version
Resolved(id, stable) == IF id.str = "stable" THEN stable ELSE id.ver

\* C11: for identifiers a and b that are "stable" or a semantic version
\* (neither is "nightly"), versions_geq(a, b, stable) returns a' >= b' in
\* semantic-version order, a' and b' being a and b with "stable" replaced by
\* the resolved stable version; for two semantic versions the result is the
\* same whatever the stable version is.
C11_AgreesWithSemver ==
    LET a == geq_call.v1
        b == geq_call.v2
    IN  (geq_call.done /\ a.str \in {"stable", "semver"} /\ b.str \in {"stable", "semver"}) =>
            /\ geq_call.out = Returned(~SemverPrecedes(Resolved(a, geq_call.stable),
                                                       Resolved(b, geq_call.stable)))
            /\ (a.str = "semver" /\ b.str = "semver") =>
                \A s \in Versions : versions_geq(a, b, s) = geq_call.out

\* "stable" resolved to 1.50.0 is not at least 1.50.1
C11_Witness ==
    /\ geq_call.done
    /\ geq_call.v1 = Stable /\ geq_call.v2 = Ver(1, 50, 1)
    /\ geq_call.stable = <<1, 50, 0>>
    /\ geq_call.out = Returned(FALSE)

----------------------------------------------------------------------------
(* Properties of the engine: interrupts, workspaces, pins, installation *)

\* C12: once an interrupt signal has been delivered, whenever in the run,
\* the shutdown sequence is initiated and the process ends with status 0:
\* a process that has ended after an interrupt has begun the shutdown
\* sequence and its exit status is 0.
C12_InterruptShutsDown ==
    (interrupted /\ Exited) => (shutdownLog # << >> /\ status = 0)

\* an external command of the task of k is executing
Executing(k) == pc[k] \in {"lockfile", "pin", "test"}

\* the test commands the task of k has started, in the order of their start
TestLog(k) == SelectSeq(cmdlog[k], LAMBDA c : c.cmd = "test")

\* C13: at most one external command is executing against any workspace:
\* two toolchain tasks never have the same workspace directory, the command
\* a task is executing is the last one it started, and the test commands of
\* a task are started one by one in the order of its row of the matrix.
C13_OneCommandPerWorkspace ==
    /\ \A k1 \in Keys : \A k2 \in Keys \ {k1} :
        (dir[k1] # NoDir /\ dir[k2] # NoDir) => dir[k1] # dir[k2]
    /\ \A k \in Keys : dir[k] # NoDir =>
        Cardinality({ j \in Keys : Executing(j) /\ dir[j] = dir[k] }) <= 1
    /\ \A k \in Keys :
        /\ pc[k] = "test" => cmdlog[k][Len(cmdlog[k])] = TestCmd(idx[k])
        /\ TestLog(k) = [j \in 1..Len(TestLog(k)) |-> TestCmd(j)]
        /\ Len(TestLog(k)) <= Len(test_matrix[k])
        /\ pc[k] = "test" => Len(TestLog(k)) = idx[k]

\* the two tasks of toolchain 1.40.0 run a test each in their own workspace
\* while the task of "stable" runs its second feature combination
C13_Witness ==
    /\ ~Exited
    /\ \E k1 \in Keys : \E k2 \in Keys \ {k1} :
        /\ k1.name = k2.name
        /\ pc[k1] = "test" /\ pc[k2] = "test"
        /\ dir[k1].prefix = dir[k2].prefix /\ dir[k1].suffix # dir[k2].suffix
    /\ \E k \in Keys : pc[k] = "test" /\ idx[k] = 2

\* the commands pin_dependencies issues for k, in order
PinSteps(k) ==
    IF k.requires_pinning = << >> THEN << >>
    ELSE << LockCmd >> \o [i \in 1..Len(k.requires_pinning) |-> PinCmd(i)]

\* every command of the task of k, in order
AllSteps(k) == PinSteps(k) \o [j \in 1..Len(test_matrix[k]) |-> TestCmd(j)]

\* C14: no command of a toolchain starts before its copy has finished; for
\* a toolchain with pins the commands are the lock-file generation once,
\* then each declared pin once in declared order, and only then the tests;
\* for a toolchain without pins no lock-file or pin command is ever issued.
C14_PinsBeforeTests ==
    \A k \in Keys :
        /\ pc[k] \in {"waiting", "send", "copy"} => cmdlog[k] = << >>
        /\ IsPrefix(cmdlog[k], AllSteps(k))
        /\ pc[k] = "test" => Len(cmdlog[k]) > Len(PinSteps(k))
        /\ k.requires_pinning = << >> =>
            \A i \in DOMAIN cmdlog[k] : cmdlog[k][i].cmd = "test"

\* the toolchain with two pins runs its first test after the lock file and
\* both pins; the other task of the same toolchain, without pins, has
\* finished with test commands only
C14_Witness ==
    /\ ~Exited
    /\ \E k \in Keys :
        /\ Len(k.requires_pinning) = 2 /\ pc[k] = "test"
        /\ cmdlog[k] = << LockCmd, PinCmd(1), PinCmd(2), TestCmd(1) >>
    /\ \E k \in Keys :
        /\ k.requires_pinning = << >> /\ pc[k] = "done"
        /\ cmdlog[k] = << TestCmd(1) >>

\* C15: once the lock-file step or a pin step of a toolchain has failed, no
\* further pin and no test command is started for that toolchain: the log
\* of a failed task ends with the step that failed and holds no test, and a
\* task with pins that has started a test has not failed.
C15_NoTestAfterFailedPin ==
    \A k \in Keys :
        /\ k \in failedTasks =>
            /\ pc[k] \in {"copy", "lockfile", "pin"}
            /\ TestLog(k) = << >>
            /\ pc[k] = "copy" => cmdlog[k] = << >>
            /\ pc[k] = "lockfile" => cmdlog[k] = << LockCmd >>
            /\ pc[k] = "pin" => cmdlog[k] = SubSeq(PinSteps(k), 1, 1 + idx[k])
        /\ (k.requires_pinning # << >> /\ TestLog(k) # << >>) =>
            /\ k \notin failedTasks
            /\ IsPrefix(PinSteps(k), cmdlog[k])

\* the first of two pins failed: the second pin and the tests never start
C15_Witness ==
    \E k \in failedTasks :
        /\ Len(k.requires_pinning) = 2
        /\ pc[k] = "pin" /\ idx[k] = 1
        /\ cmdlog[k] = << LockCmd, PinCmd(1) >>
        /\ Exited

----------------------------------------------------------------------------
(* Properties of the matrix generator: malformed identifiers *)

\* a malformed toolchain name or minimum version takes part in a comparison
\* of the generation: the filter compares every toolchain name with every
\* declared minimum version
MalformedCompared(c) ==
    \E i \in DOMAIN c.rust : \E j \in DOMAIN c.features :
        /\ c.features[j].min_rust # None
        /\ c.rust[i].name = Malformed \/ c.features[j].min_rust[1] = Malformed

\* C16: when a malformed toolchain name or minimum version takes part in a
\* comparison of the matrix generation, whatever it is compared with, no
\* matrix is produced: the process ends with a non-zero status before the
\* handler is spawned and before any toolchain task starts.
C16_MalformedIsFatal ==
    MalformedCompared(cfg) =>
        /\ mainPc = "gen_matrix"
        /\ test_matrix = << >>
        /\ Exited => status # 0

\* the toolchains for which install_toolchain has been called, in order
InstalledToolchains == [i \in DOMAIN installed |-> installed[i].rust]

\* some workspace has been created, or some toolchain task has left the
\* waiting state
SomeTaskStarted == \E k \in Keys : pc[k] # "waiting" \/ dir[k] # NoDir \/ exists[k]

\* C17: with --install the declared toolchains are installed one at a time
\* in declared order, and all of them before the matrix is generated and
\* before any workspace is created; a failed installation ends the process
\* at once with a non-zero status: no later toolchain is installed, no
\* toolchain task and no fuzz command ever runs.  Without --install nothing
\* is installed.
C17_InstallBeforeMatrix ==
    /\ IsPrefix(InstalledToolchains, cfg.rust)
    /\ \A i \in 1..(Len(installed) - 1) : installed[i].ok
    /\ ~install => installed = << >>
    /\ (install /\ (mainPc # "install" \/ test_matrix # << >> \/ SomeTaskStarted)) =>
        /\ InstalledToolchains = cfg.rust
        /\ \A i \in DOMAIN installed : installed[i].ok
    /\ (\E i \in DOMAIN installed : ~installed[i].ok) =>
        /\ exitBy = "install" /\ status # 0
        /\ mainPc = "install" /\ test_matrix = << >> /\ handlerPc = "unspawned"
        /\ ~SomeTaskStarted /\ fuzzIdx = 0

\* the second of three installations failed: the third was never attempted
C17_Witness ==
    /\ Len(cfg.rust) = 3 /\ Len(installed) = 2
    /\ installed[1].ok /\ ~installed[2].ok
    /\ exitBy = "install" /\ status = -1

\* three toolchains were installed in declared order and a task has started
C17_AllInstalled ==
    /\ install /\ Len(cfg.rust) = 3
    /\ InstalledToolchains = cfg.rust
    /\ \E k \in Keys : pc[k] = "test"

\* C19: with par = 0 the bound of C1 reads "at most 0": no toolchain task is
\* ever active.
C19_ParZeroNoneActive == cfg.par = 0 => Cardinality(Active) <= cfg.par

\* the path of k has been sent to the shutdown handler and not withdrawn: it
\* is in the handler's list, or still in the channel's buffer on its way
Registered(k) == k \in Range(paths) \/ k \in Range(chan)

\* C20: the workspace of a toolchain task that has finished no longer
\* exists, whether its tests passed or failed, while its path is still
\* registered with the shutdown handler; hence no workspace exists when the
\* fuzz phase begins, nor when a run without interrupt ends normally, with
\* the path of every toolchain still registered.
C20_RemovedByOwnTask ==
    /\ \A k \in Keys : pc[k] = "done" => (~exists[k] /\ dir[k] # NoDir /\ Registered(k))
    /\ mainPc \in {"sleep", "read_dir", "fuzz", "return", "done"} =>
        \A k \in Keys : ~exists[k]
    /\ (exitBy = "main" /\ ~interrupted) =>
        \A k \in Keys : ~exists[k] /\ pc[k] = "done" /\ Registered(k)

\* a run of 2 toolchains without interrupt, in which a test failed and a
\* fuzz command ran, has ended: both paths are in the handler's list
C20_Witness ==
    /\ exitBy = "main" /\ ~interrupted /\ testFailed /\ fuzzIdx = 1
    /\ Cardinality(Keys) = 2
    /\ Range(paths) = Keys
    /\ \A k \in Keys : ~exists[k]

----------------------------------------------------------------------------
(* Property of the run without interrupt *)

\* every entry of the matrix has been started and has run to its end
AllEntriesFinished ==
    /\ Keys = Range(cfg.rust)
    /\ \A k \in Keys : pc[k] = "done" /\ Len(TestLog(k)) = Len(test_matrix[k])

\* C18: with par >= 1, no interrupt and every command and copy coming to an
\* end, unless a task fails fatally every entry of the matrix is eventually
\* started and finished, however many entries there are (more than par,
\* more than the channel holds), and the process then ends normally, after
\* the fuzz phase if one is configured.
C18_EveryEntryRuns ==
    <>(\/ failedTasks # {}
       \/ /\ AllEntriesFinished
          /\ exitBy = "main" /\ status = 0
          /\ cfg.fuzzing => fuzzIdx = fuzz_targets)

\* the fifth task waits at its send because the buffer holds the paths of
\* the four tasks before it
C18_Witness ==
    /\ Cardinality(Keys) = LiveRust /\ cfg.par = 1
    /\ Len(chan) = ChannelCapacity
    /\ \E k \in Keys : pc[k] = "send"
    /\ Cardinality({ k \in Keys : pc[k] = "done" }) = ChannelCapacity

=============================================================================
